---- MODULE Spec2Model ----
(***************************************************************************)
(* Container lifecycle of pwncore: the /ctf/{id}/start, /ctf/{id}/stop and *)
(* /ctf/stopall handlers (routes/ctf/start.py) and the admin /round2       *)
(* handler (routes/admin.py).  Every `await` of a handler is one step: a   *)
(* request that stands at a label is suspended in that call, and the step  *)
(* is the call's completion, with a success and a failure outcome.         *)
(***************************************************************************)
EXTENDS Integers, Sequences, FiniteSets, TLC

\* ------------------------------------------------------------------ bounds
\* requests served at the same time
NumProcs == 2
NumTeams == 2
NumProblems == 2
NumMetaTeams == 1
NumR2Problems == 2
\* containers the runtime creates in one run of the model
MaxContainers == 2
\* failures injected in one run of the model
MaxFaults == 1

\* config.max_containers_per_team, a setting of the deployment
max_containers_per_team == 1

Procs == 1 .. NumProcs
Teams == 1 .. NumTeams
\* ctf ids a request may name: 0 is no problem at all, NumProblems + 1 is a
\* problem that exists with visible = False
CtfIds == 0 .. (NumProblems + 1)
MetaTeams == 1 .. NumMetaTeams
R2Problems == 1 .. NumR2Problems
Problems == 1 .. NumProblems
ConcurrentTeams == {1}
\* ids 1 .. NumTeams are those of the instances that exist when round2 is
\* called on its own
DockerIds == 1 .. (NumTeams + MaxContainers)

VARIABLES
    Container,   \* rows of the container table: [docker_id, team_id, problem_id]
    Ports,       \* rows of the ports table: [container, port]
    R2Container, \* rows of the round-2 container table
    R2Ports,     \* rows of the round-2 ports table
    docker,      \* the runtime: docker id -> "none" | "running" | "stopped" | "removed"
    nextId,      \* the next docker id the runtime hands out
    pc,          \* per request slot: the await the handler is suspended in
    req,         \* per request slot: [op, team_id, ctf_id]
    txn,         \* per request slot: the transaction's writes
    loc,         \* per request slot: the handler's local variables
    resp,        \* per request slot: the response
    calls,       \* per request slot: the runtime and registry calls issued, in order
    r2,          \* the round2 handler: [pc, owner], owner the slot that serves it
    del_tasks,   \* round2's first TaskGroup: docker id -> task position
    new_tasks,   \* round2's second TaskGroup: <<problem, mteam>> -> task record
    hist,        \* a sequential client's view: its previous request, response and
                 \* calls, and the registry and the runtime as they were when the
                 \* current request began
    faults       \* the failures injected so far

vars == <<Container, Ports, R2Container, R2Ports, docker, nextId, pc, req, txn,
          loc, resp, calls, r2, del_tasks, new_tasks, hist, faults>>

dbVars == <<Container, Ports>>
r2dbVars == <<R2Container, R2Ports>>
adminVars == <<r2, del_tasks, new_tasks>>

\* ------------------------------------------------------------ the catalog
\* a lookup that forgets visible=True
ProblemVisibleOrNot(c) == c \in 1 .. (NumProblems + 1)

\* Problem.get_or_none(id=ctf_id, visible=True)
ProblemVisible(c) == c \in 1 .. NumProblems

\* Problem.get_or_none(id=ctf_id)
ProblemExists(c) == c \in 1 .. (NumProblems + 1)

\* image_config["PortBindings"]: the declared guest ports, in the mapping's order
PortBindings(c) == IF c % 2 = 0 THEN <<1, 2>> ELSE <<1>>

\* ------------------------------------------------------------ the runtime
\* container.port(guest_port): the binding list the runtime reports, the IPv4
\* entry first and the IPv6 entry after it; a HostPort is a string of digits
HostPortList(id, gp) == << [HostPort |-> <<id, gp>>], [HostPort |-> <<id, gp + 5>>] >>

\* int(s) of a string of decimal digits
RECURSIVE int(_)
int(s) == IF s = <<>> THEN 0 ELSE 10 * int(SubSeq(s, 1, Len(s) - 1)) + s[Len(s)]

\* a call to the registry or to the runtime succeeds or fails; a run of the
\* model injects at most MaxFaults failures
Outcomes == IF faults < MaxFaults THEN BOOLEAN ELSE {TRUE}

\* the outcomes of a runtime call on container id: it may fail at any time, and
\* fails for certain when the container is not there
RuntimeOutcomes(id) == IF docker[id] \in {"running", "stopped"} THEN Outcomes ELSE {FALSE}

\* a failure that the state does not force is an injected one
RuntimeFault(ok, id) ==
    faults' = IF ok \/ docker[id] \notin {"running", "stopped"} THEN faults ELSE faults + 1

Fault(ok, forced) == faults' = IF ok \/ forced THEN faults ELSE faults + 1

\* ----------------------------------------------------------- the registry
NoTxn == [ins |-> {}, insP |-> {}, del |-> {}, poisoned |-> FALSE]

NoLoc == [container |-> 0, team_container |-> 0, containers |-> {}, i |-> 0,
          ports |-> <<>>]

NoResp == [status |-> 0, msg_code |-> "none", ports |-> <<>>, committed |-> FALSE]

NoReq == [op |-> "idle", team_id |-> 0, ctf_id |-> 0]

NoHist == [req |-> NoReq, resp |-> NoResp, calls |-> <<>>, Container |-> {}, Ports |-> {},
           docker |-> <<>>]

\* a response of a handler whose transaction commits
Response(status, msg_code, ports) ==
    [status |-> status, msg_code |-> msg_code, ports |-> ports, committed |-> TRUE]

\* the response of the framework to an exception that leaves the handler
InternalServerError ==
    [status |-> 500, msg_code |-> "internal_server_error", ports |-> <<>>,
     committed |-> FALSE]

\* the rows a transaction leaves in the container table when it commits
CommitContainer(t) ==
    IF t.poisoned THEN Container
    ELSE {r \in Container : r.docker_id \notin t.del} \cup t.ins

\* the rows a transaction leaves in the ports table when it commits (ports are
\* deleted with their container)
CommitPorts(t) ==
    IF t.poisoned THEN Ports
    ELSE {r \in Ports : r.container \notin t.del} \cup t.insP

\* a lookup that forgets the problem
RowsOfTeamOnly(team, ctf) == {r \in Container : r.team_id = team}

\* Container.get_or_none(team=team_id, problem=ctf_id): the rows that match
RowsOf(team, ctf) == {r \in Container : r.team_id = team /\ r.problem_id = ctf}

\* a port query that forgets the container
PortsOfAnyContainer(id) == {r.port : r \in Ports}

\* team_container.ports.all().values("port")
PortsOf(id) == {r.port : r \in {x \in Ports : x.container = id}}

\* a quota test that is off by one
AtQuotaOffByOne(team) ==
    Cardinality({r \in Container : r.team_id = team}) > max_containers_per_team

\* Container.filter(team_id=team_id).count() >= config.max_containers_per_team
AtQuota(team) ==
    Cardinality({r \in Container : r.team_id = team}) >= max_containers_per_team

\* Container.filter(team_id=team_id)
RowsOfTeam(team) == {r \in Container : r.team_id = team}

\* the sequences that list the elements of S once each (a query without
\* order_by returns its rows in any order)
Orderings(S) ==
    {s \in [1 .. Cardinality(S) -> S] : \A i, j \in 1 .. Cardinality(S) : i # j => s[i] # s[j]}

Range(s) == {s[i] : i \in 1 .. Len(s)}

\* the requests whose transaction is open
Open(q) == pc[q] \notin {"idle", "done", "round2"}

\* a (team, problem) key on which another open transaction holds an uncommitted
\* insert or delete: a write to that key waits for that transaction to end
PendingOn(p, team, ctf) ==
    \E q \in Procs \ {p} :
        /\ Open(q)
        /\ \/ \E r \in txn[q].ins : r.team_id = team /\ r.problem_id = ctf
           \/ \E r \in RowsOf(team, ctf) : r.docker_id \in txn[q].del

\* a delete waits for the open transactions that hold a delete on one of its rows
RowsLocked(p, rows) ==
    \E q \in Procs \ {p} : Open(q) /\ \E r \in rows : r.docker_id \in txn[q].del

\* a table without the constraint
NoUniqueConstraint(team, ctf) == FALSE

\* the storage-level uniqueness constraint on (team, problem)
UniqueViolation(team, ctf) == RowsOf(team, ctf) # {}

\* itertools.product(problems, mteams)
Units == R2Problems \X MetaTeams

\* a _create_container task: its position, its local variables, what its
\* transaction holds, the containers.run calls it has issued, and whether it
\* has logged a failure
NoTask == [pc |-> "none", container |-> 0, i |-> 0, ports |-> <<>>, ins |-> FALSE,
           poisoned |-> FALSE, runs |-> 0, logged |-> FALSE]

NoR2 == [pc |-> "idle", owner |-> 0, problems |-> {}, mteams |-> {}]

\* ------------------------------------------- entering and leaving a handler
\* a slot that serves no request takes one; what the slot held of its last
\* request is dropped
Accept(p, r, label) ==
    /\ pc[p] \in {"idle", "done"}
    /\ \A q \in 1 .. (p - 1) : pc[q] \notin {"idle", "done"}
    /\ pc' = [pc EXCEPT ![p] = label]
    /\ req' = [req EXCEPT ![p] = r]
    /\ txn' = [txn EXCEPT ![p] = NoTxn]
    /\ loc' = [loc EXCEPT ![p] = NoLoc]
    /\ resp' = [resp EXCEPT ![p] = NoResp]
    /\ calls' = [calls EXCEPT ![p] = <<>>]
    /\ UNCHANGED <<dbVars, r2dbVars, docker, nextId>>

\* the tasks of a round2 call are dropped with the call
AcceptUser(p, r, label) ==
    /\ Accept(p, r, label)
    /\ IF r2.owner = p
       THEN /\ r2' = NoR2
            /\ del_tasks' = [d \in DockerIds |-> "none"]
            /\ new_tasks' = [u \in Units |-> NoTask]
       ELSE UNCHANGED adminVars

\* the call op on container id, and whether it succeeded
Log(p, op, id, ok) == calls' = [calls EXCEPT ![p] = Append(@, <<op, id, ok>>)]

Goto(p, label) == pc' = [pc EXCEPT ![p] = label]

\* `return` inside `async with in_transaction()`: the transaction, whose writes
\* are t, commits
Commit(p, t, r) ==
    /\ Container' = CommitContainer(t)
    /\ Ports' = CommitPorts(t)
    /\ txn' = [txn EXCEPT ![p] = t]
    /\ resp' = [resp EXCEPT ![p] = r]
    /\ Goto(p, "done")

Return(p, r) == Commit(p, txn[p], r)

\* an exception that leaves the block and commits what the transaction wrote
RaiseCommits(p) == Commit(p, txn[p], InternalServerError)

\* an exception leaves `async with in_transaction()`: the transaction rolls
\* back and the framework answers 500
Raise(p) ==
    /\ UNCHANGED <<dbVars, txn>>
    /\ resp' = [resp EXCEPT ![p] = InternalServerError]
    /\ Goto(p, "done")

\* the handler goes on to its next await
Step(p, label) ==
    /\ Goto(p, label)
    /\ UNCHANGED <<dbVars, resp>>

\* --------------------------------------------- start_docker_container
BeginStart(p, team, ctf) ==
    /\ AcceptUser(p, [op |-> "start", team_id |-> team, ctf_id |-> ctf], "s_get_problem")
    /\ UNCHANGED <<hist, faults>>

\* ctf = await Problem.get_or_none(id=ctf_id, visible=True)
s_get_problem(p) ==
    /\ pc[p] = "s_get_problem"
    /\ IF ~ProblemVisible(req[p].ctf_id)
       THEN Return(p, Response(404, "ctf_not_found", <<>>))
       ELSE Step(p, "s_get_container") /\ UNCHANGED txn
    /\ UNCHANGED <<r2dbVars, docker, nextId, req, loc, calls, adminVars, hist, faults>>

\* team_container = await Container.get_or_none(team=team_id, problem=ctf_id)
s_get_container(p) ==
    /\ pc[p] = "s_get_container"
    /\ LET rows == RowsOf(req[p].team_id, req[p].ctf_id) IN
       IF rows # {}
       THEN /\ \E r \in rows : loc' = [loc EXCEPT ![p].team_container = r.docker_id]
            /\ Step(p, "s_ports_all")
       ELSE /\ Step(p, "s_count")
            /\ UNCHANGED loc
    /\ UNCHANGED <<r2dbVars, docker, nextId, req, txn, calls, adminVars, hist, faults>>

\* db_ports = await team_container.ports.all().values("port"); return them
s_ports_all(p) ==
    /\ pc[p] = "s_ports_all"
    /\ \E ports \in Orderings(PortsOf(loc[p].team_container)) :
           Return(p, Response(200, "container_already_running", ports))
    /\ UNCHANGED <<r2dbVars, docker, nextId, req, loc, calls, adminVars, hist, faults>>

\* await Container.filter(team_id=team_id).count() >= config.max_containers_per_team
s_count(p) ==
    /\ pc[p] = "s_count"
    /\ IF AtQuota(req[p].team_id)
       THEN Return(p, Response(200, "container_limit_reached", <<>>))
       ELSE Step(p, "s_run") /\ UNCHANGED txn
    /\ UNCHANGED <<r2dbVars, docker, nextId, req, loc, calls, adminVars, hist, faults>>

\* a handler that creates the container and forgets the flag exec
s_run_no_exec(p) ==
    /\ pc[p] = "s_run"
    /\ nextId <= NumTeams + MaxContainers
    /\ \E ok \in Outcomes :
          /\ Fault(ok, FALSE)
          /\ IF ok
             THEN /\ docker' = [docker EXCEPT ![nextId] = "running"]
                  /\ nextId' = nextId + 1
                  /\ loc' = [loc EXCEPT ![p].container = nextId]
                  /\ Log(p, "run", nextId, TRUE)
                  /\ Step(p, "s_create")
                  /\ UNCHANGED txn
             ELSE /\ Log(p, "run", 0, FALSE)
                  /\ Raise(p)
                  /\ UNCHANGED <<docker, nextId, loc>>
    /\ UNCHANGED <<r2dbVars, req, adminVars, hist>>

\* container = await docker_client.containers.run(...)
s_run(p) ==
    /\ pc[p] = "s_run"
    /\ nextId <= NumTeams + MaxContainers
    /\ \E ok \in Outcomes :
          /\ Fault(ok, FALSE)
          /\ IF ok
             THEN /\ docker' = [docker EXCEPT ![nextId] = "running"]
                  /\ nextId' = nextId + 1
                  /\ loc' = [loc EXCEPT ![p].container = nextId]
                  /\ Log(p, "run", nextId, TRUE)
                  /\ Step(p, "s_exec")
                  /\ UNCHANGED txn
             ELSE /\ Log(p, "run", 0, FALSE)
                  /\ Raise(p)
                  /\ UNCHANGED <<docker, nextId, loc>>
    /\ UNCHANGED <<r2dbVars, req, adminVars, hist>>

\* await (await container.exec([...])).start(detach=True)
s_exec(p) ==
    /\ pc[p] = "s_exec"
    /\ \E ok \in RuntimeOutcomes(loc[p].container) :
          /\ RuntimeFault(ok, loc[p].container)
          /\ Log(p, "exec", loc[p].container, ok)
          /\ IF ok THEN Step(p, "s_create") /\ UNCHANGED txn ELSE Raise(p)
    /\ UNCHANGED <<r2dbVars, docker, nextId, req, loc, adminVars, hist>>

\* db_container = await Container.create(docker_id=..., team_id=..., problem_id=...)
s_create(p) ==
    /\ pc[p] = "s_create"
    /\ ~PendingOn(p, req[p].team_id, req[p].ctf_id)
    /\ \E ok \in (IF UniqueViolation(req[p].team_id, req[p].ctf_id) THEN {FALSE} ELSE Outcomes) :
          /\ Fault(ok, UniqueViolation(req[p].team_id, req[p].ctf_id))
          /\ Log(p, "db_create", loc[p].container, ok)
          /\ IF ok
             THEN /\ txn' = [txn EXCEPT ![p].ins =
                               {[docker_id |-> loc[p].container, team_id |-> req[p].team_id,
                                 problem_id |-> req[p].ctf_id]}]
                  /\ loc' = [loc EXCEPT ![p].i = 1]
                  /\ Step(p, "s_port")
             ELSE /\ Step(p, "s_exc_stop")
                  /\ UNCHANGED <<txn, loc>>
    /\ UNCHANGED <<r2dbVars, docker, nextId, req, adminVars, hist>>

\* a handler that takes the last item of the list the runtime returns
s_port_last_item(p) ==
    /\ pc[p] = "s_port"
    /\ \E ok \in RuntimeOutcomes(loc[p].container) :
          /\ RuntimeFault(ok, loc[p].container)
          /\ Log(p, "port", loc[p].container, ok)
          /\ IF ok
             THEN LET guest_port == PortBindings(req[p].ctf_id)[loc[p].i]
                      port == int(HostPortList(loc[p].container, guest_port)[2].HostPort)
                  IN  /\ loc' = [loc EXCEPT ![p].ports = Append(@, port)]
                      /\ Step(p, "s_ports_create")
             ELSE /\ Step(p, "s_exc_stop")
                  /\ UNCHANGED loc
    /\ UNCHANGED <<r2dbVars, docker, nextId, req, txn, adminVars, hist>>

\* port = int((await container.port(guest_port))[0]["HostPort"]); ports.append(port)
s_port(p) ==
    /\ pc[p] = "s_port"
    /\ \E ok \in RuntimeOutcomes(loc[p].container) :
          /\ RuntimeFault(ok, loc[p].container)
          /\ Log(p, "port", loc[p].container, ok)
          /\ IF ok
             THEN LET guest_port == PortBindings(req[p].ctf_id)[loc[p].i]
                      port == int(HostPortList(loc[p].container, guest_port)[1].HostPort)
                  IN  /\ loc' = [loc EXCEPT ![p].ports = Append(@, port)]
                      /\ Step(p, "s_ports_create")
             ELSE /\ Step(p, "s_exc_stop")
                  /\ UNCHANGED loc
    /\ UNCHANGED <<r2dbVars, docker, nextId, req, txn, adminVars, hist>>

\* await Ports.create(port=port, container=db_container); after the last guest
\* port the handler returns the ports
s_ports_create(p) ==
    /\ pc[p] = "s_ports_create"
    /\ \E ok \in Outcomes :
          /\ Fault(ok, FALSE)
          /\ Log(p, "db_ports_create", loc[p].container, ok)
          /\ IF ok
             THEN LET row == [container |-> loc[p].container,
                              port |-> loc[p].ports[Len(loc[p].ports)]]
                      t == [txn[p] EXCEPT !.insP = @ \cup {row}]
                  IN  IF loc[p].i < Len(PortBindings(req[p].ctf_id))
                      THEN /\ txn' = [txn EXCEPT ![p] = t]
                           /\ loc' = [loc EXCEPT ![p].i = @ + 1]
                           /\ Step(p, "s_port")
                      ELSE /\ Commit(p, t, Response(200, "container_start", loc[p].ports))
                           /\ UNCHANGED loc
             ELSE \* a failed statement aborts the transaction on some backends
                  /\ \E poisoned \in BOOLEAN : txn' = [txn EXCEPT ![p].poisoned = poisoned]
                  /\ Step(p, "s_exc_stop")
                  /\ UNCHANGED loc
    /\ UNCHANGED <<r2dbVars, docker, nextId, req, adminVars, hist>>

\* a compensation that stops the container and forgets to delete it
s_exc_stop_no_delete(p) ==
    /\ pc[p] = "s_exc_stop"
    /\ \E ok \in RuntimeOutcomes(loc[p].container) :
          /\ RuntimeFault(ok, loc[p].container)
          /\ Log(p, "stop", loc[p].container, ok)
          /\ IF ok
             THEN /\ docker' = [docker EXCEPT ![loc[p].container] = "stopped"]
                  /\ Return(p, Response(500, "db_error", <<>>))
             ELSE /\ Raise(p)
                  /\ UNCHANGED docker
    /\ UNCHANGED <<r2dbVars, nextId, req, loc, adminVars, hist>>

\* except Exception: await container.stop()
s_exc_stop(p) ==
    /\ pc[p] = "s_exc_stop"
    /\ \E ok \in RuntimeOutcomes(loc[p].container) :
          /\ RuntimeFault(ok, loc[p].container)
          /\ Log(p, "stop", loc[p].container, ok)
          /\ IF ok
             THEN /\ docker' = [docker EXCEPT ![loc[p].container] = "stopped"]
                  /\ Step(p, "s_exc_delete")
                  /\ UNCHANGED txn
             ELSE /\ Raise(p)
                  /\ UNCHANGED docker
    /\ UNCHANGED <<r2dbVars, nextId, req, loc, adminVars, hist>>

\* await container.delete(); return db_error with status 500
s_exc_delete(p) ==
    /\ pc[p] = "s_exc_delete"
    /\ \E ok \in RuntimeOutcomes(loc[p].container) :
          /\ RuntimeFault(ok, loc[p].container)
          /\ Log(p, "delete", loc[p].container, ok)
          /\ IF ok
             THEN /\ docker' = [docker EXCEPT ![loc[p].container] = "removed"]
                  /\ Return(p, Response(500, "db_error", <<>>))
             ELSE /\ Raise(p)
                  /\ UNCHANGED docker
    /\ UNCHANGED <<r2dbVars, nextId, req, loc, adminVars, hist>>

\* ---------------------------------------------- stop_docker_container
BeginStop(p, team, ctf) ==
    /\ AcceptUser(p, [op |-> "stop", team_id |-> team, ctf_id |-> ctf], "t_get_problem")
    /\ UNCHANGED <<hist, faults>>

\* ctf = await Problem.get_or_none(id=ctf_id)
t_get_problem(p) ==
    /\ pc[p] = "t_get_problem"
    /\ IF ~ProblemExists(req[p].ctf_id)
       THEN Return(p, Response(404, "ctf_not_found", <<>>))
       ELSE Step(p, "t_get_container") /\ UNCHANGED txn
    /\ UNCHANGED <<r2dbVars, docker, nextId, req, loc, calls, adminVars, hist, faults>>

\* team_container = await Container.get_or_none(team_id=team_id, problem_id=ctf_id)
t_get_container(p) ==
    /\ pc[p] = "t_get_container"
    /\ LET rows == RowsOf(req[p].team_id, req[p].ctf_id) IN
       IF rows = {}
       THEN /\ Return(p, Response(200, "container_not_found", <<>>))
            /\ UNCHANGED loc
       ELSE /\ \E r \in rows : loc' = [loc EXCEPT ![p].team_container = r.docker_id]
            /\ Step(p, "t_db_delete")
            /\ UNCHANGED txn
    /\ UNCHANGED <<r2dbVars, docker, nextId, req, calls, adminVars, hist, faults>>

\* a handler that logs the failed delete and forgets to return
t_db_delete_no_return(p) ==
    /\ pc[p] = "t_db_delete"
    /\ ~PendingOn(p, req[p].team_id, req[p].ctf_id)
    /\ \E ok \in Outcomes :
          /\ Fault(ok, FALSE)
          /\ Log(p, "db_delete", loc[p].team_container, ok)
          /\ txn' = [txn EXCEPT ![p].del =
                        IF ok THEN {r.docker_id : r \in RowsOf(req[p].team_id, req[p].ctf_id)}
                        ELSE @]
          /\ Step(p, "t_get")
    /\ UNCHANGED <<r2dbVars, docker, nextId, req, loc, adminVars, hist>>

\* await Container.filter(team_id=team_id, problem_id=ctf_id).delete()
t_db_delete(p) ==
    /\ pc[p] = "t_db_delete"
    /\ ~PendingOn(p, req[p].team_id, req[p].ctf_id)
    /\ \E ok \in Outcomes :
          /\ Fault(ok, FALSE)
          /\ Log(p, "db_delete", loc[p].team_container, ok)
          /\ IF ok
             THEN /\ txn' = [txn EXCEPT ![p].del =
                               {r.docker_id : r \in RowsOf(req[p].team_id, req[p].ctf_id)}]
                  /\ Step(p, "t_get")
             ELSE Return(p, Response(500, "db_error", <<>>))
    /\ UNCHANGED <<r2dbVars, docker, nextId, req, loc, adminVars, hist>>

\* container = await docker_client.containers.get(team_container.docker_id)
t_get(p) ==
    /\ pc[p] = "t_get"
    /\ \E ok \in RuntimeOutcomes(loc[p].team_container) :
          /\ RuntimeFault(ok, loc[p].team_container)
          /\ Log(p, "get", loc[p].team_container, ok)
          /\ IF ok THEN Step(p, "t_stop") /\ UNCHANGED txn ELSE Raise(p)
    /\ UNCHANGED <<r2dbVars, docker, nextId, req, loc, adminVars, hist>>

\* await container.stop()
t_stop(p) ==
    /\ pc[p] = "t_stop"
    /\ \E ok \in RuntimeOutcomes(loc[p].team_container) :
          /\ RuntimeFault(ok, loc[p].team_container)
          /\ Log(p, "stop", loc[p].team_container, ok)
          /\ IF ok
             THEN /\ docker' = [docker EXCEPT ![loc[p].team_container] = "stopped"]
                  /\ Step(p, "t_delete")
                  /\ UNCHANGED txn
             ELSE /\ Raise(p)
                  /\ UNCHANGED docker
    /\ UNCHANGED <<r2dbVars, nextId, req, loc, adminVars, hist>>

\* await container.delete(); return container_stop
t_delete(p) ==
    /\ pc[p] = "t_delete"
    /\ \E ok \in RuntimeOutcomes(loc[p].team_container) :
          /\ RuntimeFault(ok, loc[p].team_container)
          /\ Log(p, "delete", loc[p].team_container, ok)
          /\ IF ok
             THEN /\ docker' = [docker EXCEPT ![loc[p].team_container] = "removed"]
                  /\ Return(p, Response(200, "container_stop", <<>>))
             ELSE /\ Raise(p)
                  /\ UNCHANGED docker
    /\ UNCHANGED <<r2dbVars, nextId, req, loc, adminVars, hist>>

\* ------------------------------------------- stopall_docker_container
\* `for db_container in containers`: the handler takes the next container of the
\* list, or returns when the list is at its end
NextOfLoop(p, t, rest) ==
    IF rest = {}
    THEN /\ Commit(p, t, Response(200, "containers_team_stop", <<>>))
         /\ loc' = [loc EXCEPT ![p].containers = {}]
    ELSE /\ \E d \in rest :
               loc' = [loc EXCEPT ![p].containers = rest \ {d}, ![p].team_container = d]
         /\ txn' = [txn EXCEPT ![p] = t]
         /\ Step(p, "a_get")

BeginStopAll(p, team) ==
    /\ AcceptUser(p, [op |-> "stopall", team_id |-> team, ctf_id |-> 0], "a_values")
    /\ UNCHANGED <<hist, faults>>

\* containers = await Container.filter(team_id=team_id).values()
a_values(p) ==
    /\ pc[p] = "a_values"
    /\ loc' = [loc EXCEPT ![p].containers = {r.docker_id : r \in RowsOfTeam(req[p].team_id)}]
    /\ Step(p, "a_db_delete")
    /\ UNCHANGED <<r2dbVars, docker, nextId, req, txn, calls, adminVars, hist, faults>>

\* await Container.filter(team_id=team_id).delete()
a_db_delete(p) ==
    /\ pc[p] = "a_db_delete"
    /\ ~RowsLocked(p, RowsOfTeam(req[p].team_id))
    /\ \E ok \in Outcomes :
          /\ Fault(ok, FALSE)
          /\ Log(p, "db_delete", 0, ok)
          /\ IF ok
             THEN NextOfLoop(p, [txn[p] EXCEPT !.del = {r.docker_id : r \in RowsOfTeam(req[p].team_id)}],
                             loc[p].containers)
             ELSE /\ Return(p, Response(500, "db_error", <<>>))
                  /\ UNCHANGED loc
    /\ UNCHANGED <<r2dbVars, docker, nextId, req, adminVars, hist>>

\* container = await docker_client.containers.get(db_container["docker_id"])
a_get(p) ==
    /\ pc[p] = "a_get"
    /\ \E ok \in RuntimeOutcomes(loc[p].team_container) :
          /\ RuntimeFault(ok, loc[p].team_container)
          /\ Log(p, "get", loc[p].team_container, ok)
          /\ IF ok THEN Step(p, "a_stop") /\ UNCHANGED txn ELSE Raise(p)
    /\ UNCHANGED <<r2dbVars, docker, nextId, req, loc, adminVars, hist>>

\* await container.stop()
a_stop(p) ==
    /\ pc[p] = "a_stop"
    /\ \E ok \in RuntimeOutcomes(loc[p].team_container) :
          /\ RuntimeFault(ok, loc[p].team_container)
          /\ Log(p, "stop", loc[p].team_container, ok)
          /\ IF ok
             THEN /\ docker' = [docker EXCEPT ![loc[p].team_container] = "stopped"]
                  /\ Step(p, "a_delete")
                  /\ UNCHANGED txn
             ELSE /\ Raise(p)
                  /\ UNCHANGED docker
    /\ UNCHANGED <<r2dbVars, nextId, req, loc, adminVars, hist>>

\* await container.delete(), and on to the next container of the loop
a_delete(p) ==
    /\ pc[p] = "a_delete"
    /\ \E ok \in RuntimeOutcomes(loc[p].team_container) :
          /\ RuntimeFault(ok, loc[p].team_container)
          /\ Log(p, "delete", loc[p].team_container, ok)
          /\ IF ok
             THEN /\ docker' = [docker EXCEPT ![loc[p].team_container] = "removed"]
                  /\ NextOfLoop(p, txn[p], loc[p].containers)
             ELSE /\ Raise(p)
                  /\ UNCHANGED <<docker, loc>>
    /\ UNCHANGED <<r2dbVars, nextId, req, adminVars, hist>>

\* --------------------------------------------------------------- round2
\* the uniqueness constraint on (team, problem) of the round-2 table
R2UniqueViolation(u) ==
    \E r \in R2Container : r.problem_id = u[1] /\ r.team_id = u[2]

\* @atomic(): _create_container returns and its transaction, t, commits
R2CommitContainer(u, t) ==
    IF t.ins /\ ~t.poisoned
    THEN R2Container \cup {[docker_id |-> t.container, team_id |-> u[2], problem_id |-> u[1]]}
    ELSE R2Container

\* round2 ends with response r
R2Respond(r) ==
    /\ r2' = [r2 EXCEPT !.pc = "done"]
    /\ pc' = [pc EXCEPT ![r2.owner] = "done"]
    /\ resp' = [resp EXCEPT ![r2.owner] = r]

\* problems and mteams are the rows of the R2Problem and MetaTeam tables
BeginRound2(p, problems, mteams) ==
    /\ r2.pc \in {"idle", "done"}
    /\ Accept(p, [op |-> "round2", team_id |-> 0, ctf_id |-> 0], "round2")
    /\ r2' = [pc |-> "r_all", owner |-> p, problems |-> problems, mteams |-> mteams]
    /\ del_tasks' = [d \in DockerIds |-> "none"]
    /\ new_tasks' = [u \in Units |-> NoTask]
    /\ UNCHANGED <<hist, faults>>

\* containers = await Container.all(); one _del_cont task per container
r_all ==
    /\ r2.pc = "r_all"
    /\ del_tasks' = [d \in DockerIds |->
                        IF d \in {r.docker_id : r \in Container} THEN "get" ELSE "none"]
    /\ r2' = [r2 EXCEPT !.pc = "tg1"]
    /\ UNCHANGED <<dbVars, r2dbVars, docker, nextId, pc, req, txn, loc, resp, calls,
                   new_tasks, hist, faults>>

\* a task is cancelled while it is suspended in a call
CancelledIn(at) ==
    IF at = "get" THEN "cancelled_get"
    ELSE IF at = "stop" THEN "cancelled_stop"
    ELSE IF at = "delete" THEN "cancelled_delete"
    ELSE at

\* the runtime has served the call a cancelled task was suspended in, or has not
AfterCancel(x, served) ==
    IF served /\ del_tasks[x] = "stop" /\ docker[x] = "running" THEN "stopped"
    ELSE IF served /\ del_tasks[x] = "delete" /\ docker[x] = "stopped" THEN "removed"
    ELSE docker[x]

\* a task of the TaskGroup raises: the group cancels the tasks still running and
\* the exception group leaves round2
TaskGroupAbort(d) ==
    /\ del_tasks' = [x \in DockerIds |-> IF x = d THEN "failed" ELSE CancelledIn(del_tasks[x])]
    /\ \E served \in [DockerIds -> BOOLEAN] :
           docker' = [x \in DockerIds |-> IF x = d THEN docker[x] ELSE AfterCancel(x, served[x])]
    /\ R2Respond(InternalServerError)

\* _del_cont: container = await docker_client.containers.get(id)
d_get(d) ==
    /\ r2.pc = "tg1"
    /\ del_tasks[d] = "get"
    /\ \E ok \in RuntimeOutcomes(d) :
          /\ RuntimeFault(ok, d)
          /\ IF ok
             THEN /\ del_tasks' = [del_tasks EXCEPT ![d] = "stop"]
                  /\ UNCHANGED <<r2, pc, resp, docker>>
             ELSE TaskGroupAbort(d)
    /\ UNCHANGED <<dbVars, r2dbVars, nextId, req, txn, loc, calls, new_tasks, hist>>

\* _del_cont: await container.stop()
d_stop(d) ==
    /\ r2.pc = "tg1"
    /\ del_tasks[d] = "stop"
    /\ \E ok \in RuntimeOutcomes(d) :
          /\ RuntimeFault(ok, d)
          /\ IF ok
             THEN /\ docker' = [docker EXCEPT ![d] = "stopped"]
                  /\ del_tasks' = [del_tasks EXCEPT ![d] = "delete"]
                  /\ UNCHANGED <<r2, pc, resp>>
             ELSE TaskGroupAbort(d)
    /\ UNCHANGED <<dbVars, r2dbVars, nextId, req, txn, loc, calls, new_tasks, hist>>

\* _del_cont: await container.delete()
d_delete(d) ==
    /\ r2.pc = "tg1"
    /\ del_tasks[d] = "delete"
    /\ \E ok \in RuntimeOutcomes(d) :
          /\ RuntimeFault(ok, d)
          /\ IF ok
             THEN /\ docker' = [docker EXCEPT ![d] = "removed"]
                  /\ del_tasks' = [del_tasks EXCEPT ![d] = "done"]
                  /\ UNCHANGED <<r2, pc, resp>>
             ELSE TaskGroupAbort(d)
    /\ UNCHANGED <<dbVars, r2dbVars, nextId, req, txn, loc, calls, new_tasks, hist>>

\* the first `async with asyncio.TaskGroup()` block is left: every task is done
tg1_join ==
    /\ r2.pc = "tg1"
    /\ \A d \in DockerIds : del_tasks[d] \in {"none", "done"}
    /\ r2' = [r2 EXCEPT !.pc = "r_db_delete"]
    /\ UNCHANGED <<dbVars, r2dbVars, docker, nextId, pc, req, txn, loc, resp, calls,
                   del_tasks, new_tasks, hist, faults>>

\* await Container.all().delete()
r_db_delete ==
    /\ r2.pc = "r_db_delete"
    /\ ~RowsLocked(0, Container)
    /\ \E ok \in Outcomes :
          /\ Fault(ok, FALSE)
          /\ IF ok
             THEN /\ Container' = {}
                  /\ Ports' = {}
                  /\ r2' = [r2 EXCEPT !.pc = "r_load"]
                  /\ UNCHANGED <<pc, resp>>
             ELSE /\ R2Respond(Response(500, "db_error", <<>>))
                  /\ UNCHANGED dbVars
    /\ UNCHANGED <<r2dbVars, docker, nextId, req, txn, loc, calls, del_tasks, new_tasks,
                   hist>>

\* problems = await R2Problem.all(); mteams = await MetaTeam.all(); one
\* _create_container task per pair of itertools.product(problems, mteams)
r_load ==
    /\ r2.pc = "r_load"
    /\ new_tasks' = [u \in Units |->
                        IF u \in r2.problems \X r2.mteams
                        THEN [NoTask EXCEPT !.pc = "run"] ELSE NoTask]
    /\ r2' = [r2 EXCEPT !.pc = "tg2"]
    /\ UNCHANGED <<dbVars, r2dbVars, docker, nextId, pc, req, txn, loc, resp, calls,
                   del_tasks, hist, faults>>

\* _create_container's `except Exception as err` is left:
\* logging.exception(...), the function returns and its transaction commits
Logged(u, t) ==
    /\ new_tasks' = [new_tasks EXCEPT ![u] = [t EXCEPT !.pc = "failed", !.logged = TRUE]]
    /\ R2Container' = R2CommitContainer(u, t)
    /\ UNCHANGED R2Ports

\* _create_container: container = await docker_client.containers.run(...)
c_run(u) ==
    /\ r2.pc = "tg2"
    /\ new_tasks[u].pc = "run"
    /\ nextId <= NumTeams + MaxContainers
    /\ \E ok \in Outcomes :
          /\ Fault(ok, FALSE)
          /\ IF ok
             THEN /\ docker' = [docker EXCEPT ![nextId] = "running"]
                  /\ nextId' = nextId + 1
                  /\ new_tasks' = [new_tasks EXCEPT ![u].pc = "exec", ![u].container = nextId,
                                                    ![u].runs = @ + 1]
                  /\ UNCHANGED r2dbVars
             ELSE \* `container` is unbound: container.stop() raises, `except: pass`
                  /\ Logged(u, [new_tasks[u] EXCEPT !.runs = @ + 1])
                  /\ UNCHANGED <<docker, nextId>>
    /\ UNCHANGED <<dbVars, pc, req, txn, loc, resp, calls, r2, del_tasks, hist>>

\* _create_container: await (await container.exec([...])).start(detach=True)
c_exec(u) ==
    /\ r2.pc = "tg2"
    /\ new_tasks[u].pc = "exec"
    /\ \E ok \in RuntimeOutcomes(new_tasks[u].container) :
          /\ RuntimeFault(ok, new_tasks[u].container)
          /\ new_tasks' = [new_tasks EXCEPT ![u].pc = IF ok THEN "create" ELSE "exc_stop"]
    /\ UNCHANGED <<dbVars, r2dbVars, docker, nextId, pc, req, txn, loc, resp, calls, r2,
                   del_tasks, hist>>

\* _create_container: db_container = await R2Container.create(docker_id=...,
\* problem=prob, meta_tam=mteam, flag=...).  The team is passed under the name
\* meta_tam: a table whose team field has another name gets a row without its
\* team and refuses it, so the call may fail whatever the run has injected
c_create(u) ==
    /\ r2.pc = "tg2"
    /\ new_tasks[u].pc = "create"
    /\ \E ok \in (IF R2UniqueViolation(u) THEN {FALSE} ELSE BOOLEAN) :
          /\ UNCHANGED faults
          /\ new_tasks' = [new_tasks EXCEPT ![u] =
                              IF ok THEN [@ EXCEPT !.pc = "port", !.ins = TRUE, !.i = 1]
                              ELSE [@ EXCEPT !.pc = "exc_stop"]]
    /\ UNCHANGED <<dbVars, r2dbVars, docker, nextId, pc, req, txn, loc, resp, calls, r2,
                   del_tasks, hist>>

\* _create_container: port = int((await container.port(guest_port))[0]["HostPort"])
c_port(u) ==
    /\ r2.pc = "tg2"
    /\ new_tasks[u].pc = "port"
    /\ LET t == new_tasks[u]
           guest_port == PortBindings(u[1])[t.i]
           port == int(HostPortList(t.container, guest_port)[1].HostPort)
       IN  \E ok \in RuntimeOutcomes(t.container) :
              /\ RuntimeFault(ok, t.container)
              /\ new_tasks' = [new_tasks EXCEPT ![u] =
                      IF ~ok THEN [t EXCEPT !.pc = "exc_stop"]
                      ELSE IF t.i < Len(PortBindings(u[1]))
                           THEN [t EXCEPT !.ports = Append(@, port), !.i = @ + 1]
                           ELSE [t EXCEPT !.ports = Append(@, port), !.pc = "bulk"]]
    /\ UNCHANGED <<dbVars, r2dbVars, docker, nextId, pc, req, txn, loc, resp, calls, r2,
                   del_tasks, hist>>

\* _create_container: await R2Ports.bulk_create(ports), and the function returns
c_bulk(u) ==
    /\ r2.pc = "tg2"
    /\ new_tasks[u].pc = "bulk"
    /\ LET t == new_tasks[u] IN
       \E ok \in Outcomes :
          /\ Fault(ok, FALSE)
          /\ IF ok
             THEN /\ R2Container' = R2CommitContainer(u, t)
                  /\ R2Ports' = R2Ports \cup
                         {[container |-> t.container, port |-> t.ports[k]] : k \in 1 .. Len(t.ports)}
                  /\ new_tasks' = [new_tasks EXCEPT ![u].pc = "done"]
             ELSE /\ \E poisoned \in BOOLEAN :
                        new_tasks' = [new_tasks EXCEPT ![u] =
                                          [t EXCEPT !.pc = "exc_stop", !.poisoned = poisoned]]
                  /\ UNCHANGED r2dbVars
    /\ UNCHANGED <<dbVars, docker, nextId, pc, req, txn, loc, resp, calls, r2, del_tasks,
                   hist>>

\* _create_container: except Exception: try: await container.stop()
c_exc_stop(u) ==
    /\ r2.pc = "tg2"
    /\ new_tasks[u].pc = "exc_stop"
    /\ \E ok \in RuntimeOutcomes(new_tasks[u].container) :
          /\ RuntimeFault(ok, new_tasks[u].container)
          /\ IF ok
             THEN /\ docker' = [docker EXCEPT ![new_tasks[u].container] = "stopped"]
                  /\ new_tasks' = [new_tasks EXCEPT ![u].pc = "exc_delete"]
                  /\ UNCHANGED r2dbVars
             ELSE /\ Logged(u, new_tasks[u])
                  /\ UNCHANGED docker
    /\ UNCHANGED <<dbVars, nextId, pc, req, txn, loc, resp, calls, r2, del_tasks, hist>>

\* _create_container: await container.delete(); except Exception: pass
c_exc_delete(u) ==
    /\ r2.pc = "tg2"
    /\ new_tasks[u].pc = "exc_delete"
    /\ \E ok \in RuntimeOutcomes(new_tasks[u].container) :
          /\ RuntimeFault(ok, new_tasks[u].container)
          /\ docker' = [docker EXCEPT ![new_tasks[u].container] =
                                           IF ok THEN "removed" ELSE @]
          /\ Logged(u, new_tasks[u])
    /\ UNCHANGED <<dbVars, nextId, pc, req, txn, loc, resp, calls, r2, del_tasks, hist>>

\* the second TaskGroup block is left and round2 returns
tg2_join ==
    /\ r2.pc = "tg2"
    /\ \A u \in Units : new_tasks[u].pc \in {"none", "done", "failed"}
    /\ R2Respond(Response(200, "null", <<>>))
    /\ UNCHANGED <<dbVars, r2dbVars, docker, nextId, req, txn, loc, calls, del_tasks,
                   new_tasks, hist, faults>>

\* ------------------------------------------------------ the state machine
Init ==
    /\ Container = {}
    /\ Ports = {}
    /\ R2Container = {}
    /\ R2Ports = {}
    /\ docker = [d \in DockerIds |-> "none"]
    /\ nextId = NumTeams + 1
    /\ pc = [p \in Procs |-> "idle"]
    /\ req = [p \in Procs |-> NoReq]
    /\ txn = [p \in Procs |-> NoTxn]
    /\ loc = [p \in Procs |-> NoLoc]
    /\ resp = [p \in Procs |-> NoResp]
    /\ calls = [p \in Procs |-> <<>>]
    /\ r2 = NoR2
    /\ del_tasks = [d \in DockerIds |-> "none"]
    /\ new_tasks = [u \in Units |-> NoTask]
    /\ hist = NoHist
    /\ faults = 0

\* a step of a handler that is being served
Serve ==
    \/ \E p \in Procs : s_get_problem(p)
    \/ \E p \in Procs : s_get_container(p)
    \/ \E p \in Procs : s_ports_all(p)
    \/ \E p \in Procs : s_count(p)
    \/ \E p \in Procs : s_run(p)
    \/ \E p \in Procs : s_exec(p)
    \/ \E p \in Procs : s_create(p)
    \/ \E p \in Procs : s_port(p)
    \/ \E p \in Procs : s_ports_create(p)
    \/ \E p \in Procs : s_exc_stop(p)
    \/ \E p \in Procs : s_exc_delete(p)
    \/ \E p \in Procs : t_get_problem(p)
    \/ \E p \in Procs : t_get_container(p)
    \/ \E p \in Procs : t_db_delete(p)
    \/ \E p \in Procs : t_get(p)
    \/ \E p \in Procs : t_stop(p)
    \/ \E p \in Procs : t_delete(p)
    \/ \E p \in Procs : a_values(p)
    \/ \E p \in Procs : a_db_delete(p)
    \/ \E p \in Procs : a_get(p)
    \/ \E p \in Procs : a_stop(p)
    \/ \E p \in Procs : a_delete(p)
    \/ r_all
    \/ \E d \in DockerIds : d_get(d)
    \/ \E d \in DockerIds : d_stop(d)
    \/ \E d \in DockerIds : d_delete(d)
    \/ tg1_join
    \/ r_db_delete
    \/ r_load
    \/ \E u \in Units : c_run(u)
    \/ \E u \in Units : c_exec(u)
    \/ \E u \in Units : c_create(u)
    \/ \E u \in Units : c_port(u)
    \/ \E u \in Units : c_bulk(u)
    \/ \E u \in Units : c_exc_stop(u)
    \/ \E u \in Units : c_exc_delete(u)
    \/ tg2_join

\* requests arrive at any time and are served concurrently: the members of
\* one team and the admin
Next ==
    \/ \E p \in Procs, team \in ConcurrentTeams, ctf \in Problems : BeginStart(p, team, ctf)
    \/ \E p \in Procs, team \in ConcurrentTeams, ctf \in Problems : BeginStop(p, team, ctf)
    \/ \E p \in Procs, team \in ConcurrentTeams : BeginStopAll(p, team)
    \/ \E p \in Procs : BeginRound2(p, {1}, {1})
    \/ Serve

Spec == Init /\ [][Next]_vars

\* ------------------------------------------------- a sequential client
\* the client sends a request when the response to its last one has come; it
\* keeps its last request and response, and the registry as it is now
Remember ==
    /\ UNCHANGED faults
    /\ hist' = [req |-> req[1], resp |-> resp[1], calls |-> calls[1],
                 Container |-> Container, Ports |-> Ports, docker |-> docker]

SeqStart(team, ctf) ==
    /\ AcceptUser(1, [op |-> "start", team_id |-> team, ctf_id |-> ctf], "s_get_problem")
    /\ Remember

SeqStop(team, ctf) ==
    /\ AcceptUser(1, [op |-> "stop", team_id |-> team, ctf_id |-> ctf], "t_get_problem")
    /\ Remember

SeqStopAll(team) ==
    /\ AcceptUser(1, [op |-> "stopall", team_id |-> team, ctf_id |-> 0], "a_values")
    /\ Remember

\* the handlers of routes/ctf/start.py
ServeUser ==
    \/ s_get_problem(1)
    \/ s_get_container(1)
    \/ s_ports_all(1)
    \/ s_count(1)
    \/ s_run(1)
    \/ s_exec(1)
    \/ s_create(1)
    \/ s_port(1)
    \/ s_ports_create(1)
    \/ s_exc_stop(1)
    \/ s_exc_delete(1)
    \/ t_get_problem(1)
    \/ t_get_container(1)
    \/ t_db_delete(1)
    \/ t_get(1)
    \/ t_stop(1)
    \/ t_delete(1)
    \/ a_values(1)
    \/ a_db_delete(1)
    \/ a_get(1)
    \/ a_stop(1)
    \/ a_delete(1)

SeqNext ==
    \/ \E team \in Teams, ctf \in CtfIds : SeqStart(team, ctf)
    \/ \E team \in Teams, ctf \in CtfIds : SeqStop(team, ctf)
    \/ \E team \in Teams : SeqStopAll(team)
    \/ ServeUser

SeqSpec == Init /\ [][SeqNext]_vars

\* ----------------------------------------------------- round2 on its own
\* the admin calls round2 when some teams hold an instance: team k holds
\* docker id k, on any visible problem
R2Init ==
    \E held \in SUBSET Teams : \E prob \in [held -> Problems] :
        /\ Container = {[docker_id |-> k, team_id |-> k, problem_id |-> prob[k]] : k \in held}
        /\ Ports = UNION {{[container |-> k,
                             port |-> int(HostPortList(k, PortBindings(prob[k])[j])[1].HostPort)] :
                                j \in 1 .. Len(PortBindings(prob[k]))} : k \in held}
        /\ R2Container = {}
        /\ R2Ports = {}
        /\ docker = [d \in DockerIds |-> IF d \in held THEN "running" ELSE "none"]
        /\ nextId = NumTeams + 1
        /\ pc = [p \in Procs |-> "idle"]
        /\ req = [p \in Procs |-> NoReq]
        /\ txn = [p \in Procs |-> NoTxn]
        /\ loc = [p \in Procs |-> NoLoc]
        /\ resp = [p \in Procs |-> NoResp]
        /\ calls = [p \in Procs |-> <<>>]
        /\ r2 = NoR2
        /\ del_tasks = [d \in DockerIds |-> "none"]
        /\ new_tasks = [u \in Units |-> NoTask]
        /\ hist = NoHist
        /\ faults = 0

R2Begin == BeginRound2(1, R2Problems, MetaTeams)

ServeRound2 ==
    \/ r_all
    \/ \E d \in DockerIds : d_get(d)
    \/ \E d \in DockerIds : d_stop(d)
    \/ \E d \in DockerIds : d_delete(d)
    \/ tg1_join
    \/ r_db_delete
    \/ r_load
    \/ \E u \in Units : c_run(u)
    \/ \E u \in Units : c_exec(u)
    \/ \E u \in Units : c_create(u)
    \/ \E u \in Units : c_port(u)
    \/ \E u \in Units : c_bulk(u)
    \/ \E u \in Units : c_exc_stop(u)
    \/ \E u \in Units : c_exc_delete(u)
    \/ tg2_join

R2Next ==
    \/ R2Begin
    \/ ServeRound2

R2Spec == R2Init /\ [][R2Next]_vars

\* ------------------------------------------------------------- properties
\* the positions of a call log that hold a call op
CallsOf(s, op) == {k \in 1 .. Len(s) : s[k][1] = op}

\* the positions of a call log that hold a call to the runtime
RuntimeCalls(s) ==
    {k \in 1 .. Len(s) : s[k][1] \in {"run", "exec", "port", "get", "stop", "delete"}}

\* the positions of a call log that hold a call that failed
Failed(s) == {k \in 1 .. Len(s) : ~s[k][3]}

\* a registry write of start_docker_container that failed
FailedWrites(s) == {k \in Failed(s) : s[k][1] \in {"db_create", "db_ports_create"}}

\* slot p has answered a request op
Answered(p, op) == pc[p] = "done" /\ req[p].op = op

\* the rows a registry snapshot holds for a pair, and for a team
Held(rows, team, ctf) == {r \in rows : r.team_id = team /\ r.problem_id = ctf}

HeldByTeam(rows, team) == {r \in rows : r.team_id = team}

\* C1: in every reachable state, whatever the interleaving of the start, stop,
\* stopall and round2 handlers (two concurrent starts of one team on one problem
\* among them), each registry table holds at most one Instance for each
\* (team, problem) pair.
C1_OneInstancePerPair ==
    /\ \A team \in Teams, ctf \in CtfIds : Cardinality(RowsOf(team, ctf)) <= 1
    /\ \A u \in Units :
          Cardinality({r \in R2Container : r.problem_id = u[1] /\ r.team_id = u[2]}) <= 1

\* two starts of one pair were served at the same time, neither met a failure
\* of the infrastructure: one has answered with the ports, the insert of the
\* other was refused
C1_Witness ==
    \E p, q \in Procs :
        /\ p # q
        /\ req[p].op = "start" /\ req[q] = req[p]
        /\ pc[p] = "done" /\ resp[p].msg_code = "container_start"
        /\ pc[q] = "s_exc_stop"
        /\ calls[q][Len(calls[q])] = <<"db_create", loc[q].container, FALSE>>
        /\ faults = 0
        /\ Cardinality(RowsOf(req[p].team_id, req[p].ctf_id)) = 1

\* C2: when a start has answered with the ports of a new container and the next
\* request is a start of the same team on the same problem, the second answers
\* container_already_running with the same set of ports, calls containers.run
\* not once and leaves the registry as it was, so that the two requests have
\* created one container.
C2_SecondProvision ==
    (Answered(1, "start") /\ hist.req = req[1] /\ hist.resp.msg_code = "container_start")
    => /\ resp[1].msg_code = "container_already_running"
       /\ Range(resp[1].ports) = Range(hist.resp.ports)
       /\ CallsOf(calls[1], "run") = {}
       /\ Cardinality(CallsOf(hist.calls, "run")) = 1
       /\ Container = hist.Container
       /\ Ports = hist.Ports

\* the second start of a problem with two guest ports has answered, while
\* another team holds an instance too
C2_Witness ==
    /\ Answered(1, "start") /\ hist.req = req[1] /\ hist.resp.msg_code = "container_start"
    /\ resp[1].msg_code = "container_already_running"
    /\ Cardinality(Range(resp[1].ports)) = 2
    /\ Cardinality(Container) = 2

\* C3: a start on a visible problem on which the team holds no Instance, when
\* the team's Instances, counted over all problems, are at or above
\* max_containers_per_team, answers container_limit_reached, calls
\* containers.run not once and leaves the registry as it was.
C3_QuotaExceeded ==
    ( /\ Answered(1, "start")
      /\ ProblemVisible(req[1].ctf_id)
      /\ Held(hist.Container, req[1].team_id, req[1].ctf_id) = {}
      /\ Cardinality(HeldByTeam(hist.Container, req[1].team_id)) >= max_containers_per_team )
    => /\ resp[1].msg_code = "container_limit_reached"
       /\ RuntimeCalls(calls[1]) = {}
       /\ Container = hist.Container
       /\ Ports = hist.Ports

\* the team holds exactly max_containers_per_team instances, on other problems,
\* and its start on one more problem has been refused
C3_Witness ==
    /\ Answered(1, "start")
    /\ ProblemVisible(req[1].ctf_id)
    /\ Held(hist.Container, req[1].team_id, req[1].ctf_id) = {}
    /\ Cardinality(HeldByTeam(hist.Container, req[1].team_id)) = max_containers_per_team
    /\ resp[1].msg_code = "container_limit_reached"

\* C4: in every reachable state, whatever the interleaving of the handlers
\* (concurrent starts of one team on different problems and round2 among them),
\* no team has more Instances in the registry than max_containers_per_team.
C4_QuotaRespected ==
    /\ \A team \in Teams : Cardinality(RowsOfTeam(team)) <= max_containers_per_team
    /\ \A m \in MetaTeams :
          Cardinality({r \in R2Container : r.team_id = m}) <= max_containers_per_team

\* C5: a stop for a pair for which the registry holds no Instance answers that
\* nothing was found (container_not_found; ctf_not_found when the id names no
\* problem at all), issues no call to the runtime or to the registry's writes,
\* and leaves the registry as it was.
C5_NoInstance ==
    (Answered(1, "stop") /\ Held(hist.Container, req[1].team_id, req[1].ctf_id) = {})
    => /\ resp[1].msg_code =
              IF ProblemExists(req[1].ctf_id) THEN "container_not_found" ELSE "ctf_not_found"
       /\ calls[1] = <<>>
       /\ Container = hist.Container
       /\ Ports = hist.Ports

\* the team holds an instance on another problem, and its stop on a problem it
\* holds no instance of has been answered
C5_Witness ==
    /\ Answered(1, "stop")
    /\ ProblemVisible(req[1].ctf_id)
    /\ Held(hist.Container, req[1].team_id, req[1].ctf_id) = {}
    /\ HeldByTeam(hist.Container, req[1].team_id) # {}
    /\ resp[1].msg_code = "container_not_found"

\* C6: in a start whose Container.create or Ports.create has failed after the
\* container was created: when the runtime serves the calls of the handler, the
\* handler answers db_error; and when it answers db_error it has issued, after
\* the failed write, one stop and then one delete of that container and no
\* other, and the container is gone from the runtime.
C6_Compensation ==
    (Answered(1, "start") /\ FailedWrites(calls[1]) # {})
    => LET s == calls[1]
           k == CHOOSE k \in FailedWrites(s) : TRUE
           id == s[k][2]
       IN  /\ Cardinality(FailedWrites(s)) = 1
           /\ CallsOf(s, "run") = {1} /\ s[1] = <<"run", id, TRUE>>
           /\ Failed(s) = {k} => resp[1].msg_code = "db_error" /\ resp[1].status = 500
           /\ resp[1].msg_code = "db_error"
              => /\ CallsOf(s, "stop") = {k + 1} /\ s[k + 1] = <<"stop", id, TRUE>>
                 /\ CallsOf(s, "delete") = {k + 2} /\ s[k + 2] = <<"delete", id, TRUE>>
                 /\ Len(s) = k + 2
                 /\ docker[id] = "removed"

\* the write of the second port of a container has failed and db_error has been
\* answered
C6_Witness ==
    /\ Answered(1, "start")
    /\ resp[1].msg_code = "db_error"
    /\ \E k \in FailedWrites(calls[1]) :
          /\ calls[1][k][1] = "db_ports_create"
          /\ Cardinality(CallsOf(calls[1], "db_ports_create")) = 2
          /\ docker[calls[1][k][2]] = "removed"

\* C10: a stop for a pair that has an Instance issues the registry delete before
\* any call to the runtime; when the delete fails it answers db_error having
\* issued no call to the runtime, and the runtime is as it was, the container
\* still running if it was.
C10_DeleteFirst ==
    (Answered(1, "stop") /\ Held(hist.Container, req[1].team_id, req[1].ctf_id) # {})
    => LET s == calls[1]
           row == CHOOSE r \in Held(hist.Container, req[1].team_id, req[1].ctf_id) : TRUE
       IN  /\ Len(s) >= 1
           /\ s[1][1] = "db_delete" /\ s[1][2] = row.docker_id
           /\ \A k \in RuntimeCalls(s) : k > 1 /\ s[1][3]
           /\ ~s[1][3] => /\ resp[1].msg_code = "db_error" /\ resp[1].status = 500
                          /\ Len(s) = 1
                          /\ docker = hist.docker
                          /\ Container = hist.Container

\* the registry delete of a stop has failed, and the container runs
C10_Witness ==
    /\ Answered(1, "stop")
    /\ \E r \in Held(hist.Container, req[1].team_id, req[1].ctf_id) :
          /\ calls[1] = << <<"db_delete", r.docker_id, FALSE>> >>
          /\ docker[r.docker_id] = "running"
    /\ resp[1].msg_code = "db_error"

\* the units of the round2 call that is served or was served last
R2Units == r2.problems \X r2.mteams

FailedUnits == {u \in R2Units : new_tasks[u].pc = "failed"}

\* the unit has ended with an Instance in the registry whose container runs
LiveUnit(u) ==
    /\ new_tasks[u].pc = "done"
    /\ [docker_id |-> new_tasks[u].container, team_id |-> u[2], problem_id |-> u[1]]
           \in R2Container
    /\ docker[new_tasks[u].container] = "running"

\* C7: a round2 over N teams and M problems has, when it has answered, called
\* containers.run once for each of the N x M pairs; and when exactly one of the
\* units has failed, that unit has logged its failure and every other unit has
\* ended with a live Instance in the registry.
C7_FanOut ==
    r2.pc = "done"
    => /\ \A u \in R2Units : new_tasks[u].runs = 1
       /\ Cardinality(FailedUnits) = 1
          => /\ \A u \in FailedUnits : new_tasks[u].logged
             /\ \A u \in R2Units \ FailedUnits : LiveUnit(u)

\* C8: in round2 no _create_container task has started while a _del_cont task
\* has not ended, by its success or by its failure; and a round2 one of whose
\* _del_cont tasks has failed has run its provision phase all the same, with
\* one containers.run for each pair.
C8_Phases ==
    /\ (\E u \in Units : new_tasks[u].pc # "none")
       => \A d \in DockerIds : del_tasks[d] \in {"none", "done", "failed"}
    /\ (r2.pc = "done" /\ \E d \in DockerIds : del_tasks[d] = "failed")
       => \A u \in R2Units : new_tasks[u].runs = 1

\* C9: when a fan-out has ended, the failure of one unit has cancelled or
\* skipped no other unit: in round2 every _del_cont and every
\* _create_container task has run to its own end, by its success or by its own
\* failure, and in stopall every container of the list has been taken from it.
C9_Isolation ==
    /\ r2.pc = "done"
       => /\ \A d \in DockerIds : del_tasks[d] \in {"none", "done", "failed"}
          /\ \A u \in Units : new_tasks[u].pc \in {"none", "done", "failed"}
    /\ \A p \in Procs :
          (Answered(p, "stopall") /\ Failed(calls[p]) \cap RuntimeCalls(calls[p]) # {})
          => loc[p].containers = {}

\* C11: a stopall whose registry delete has succeeded answers
\* containers_team_stop, also when a stop or a delete of a container has failed,
\* and the team then has no Instance in the registry; a stopall whose registry
\* delete has failed answers db_error and has issued no call to the runtime.
C11_TeardownAll ==
    (Answered(1, "stopall") /\ Len(calls[1]) >= 1)
    => /\ (calls[1][1][3] /\ \A k \in Failed(calls[1]) : calls[1][k][1] \in {"stop", "delete"})
          => /\ resp[1].msg_code = "containers_team_stop"
             /\ HeldByTeam(Container, req[1].team_id) = {}
       /\ ~calls[1][1][3]
          => /\ resp[1].msg_code = "db_error"
             /\ RuntimeCalls(calls[1]) = {}

\* C12: a start that names no problem, or a problem that is not visible, answers
\* ctf_not_found with status 404, issues no call to the runtime and leaves the
\* registry as it was, whatever Instances the team holds.
C12_ProblemNotFound ==
    (Answered(1, "start") /\ ~(req[1].ctf_id \in Problems))
    => /\ resp[1].msg_code = "ctf_not_found" /\ resp[1].status = 404
       /\ calls[1] = <<>>
       /\ Container = hist.Container
       /\ Ports = hist.Ports
       /\ docker = hist.docker

\* a team that holds an instance has asked for the problem that is not visible
C12_Witness ==
    /\ Answered(1, "start")
    /\ req[1].ctf_id = NumProblems + 1
    /\ HeldByTeam(hist.Container, req[1].team_id) # {}
    /\ resp[1].msg_code = "ctf_not_found"

\* C13: a start in which the exec or a port query has failed after the container
\* was created has stopped and removed that container when it answers: the
\* container does not run.
C13_RuntimeCompensation ==
    Answered(1, "start")
    => \A k \in Failed(calls[1]) :
          calls[1][k][1] \in {"exec", "port"} => docker[calls[1][k][2]] = "removed"

\* the runtime operations (exec, port query, stop, delete) that are in flight on
\* container id: the handlers and tasks that are suspended in one
InFlight(id) ==
    Cardinality({p \in Procs : /\ pc[p] \in {"s_exec", "s_port", "s_exc_stop", "s_exc_delete"}
                               /\ loc[p].container = id})
    + Cardinality({p \in Procs : /\ pc[p] \in {"t_stop", "t_delete", "a_stop", "a_delete"}
                                 /\ loc[p].team_container = id})
    + (IF r2.pc = "tg1" /\ del_tasks[id] \in {"stop", "delete"} THEN 1 ELSE 0)
    + Cardinality({u \in Units : /\ r2.pc = "tg2"
                                 /\ new_tasks[u].pc \in {"exec", "port", "exc_stop", "exc_delete"}
                                 /\ new_tasks[u].container = id})

\* C14: whatever the interleaving of the handlers, there is no state in which
\* two runtime operations are in flight on the same container.
C14_OneOperation == \A id \in DockerIds : InFlight(id) <= 1

\* the positions of a call log of start that hold a write to the registry
Writes(s) == {k \in 1 .. Len(s) : s[k][1] \in {"db_create", "db_ports_create"}}

\* C15 as stated: in a start, every write to the registry for the new Instance
\* comes after the containers.run, the exec and the port query of every guest
\* port; no write precedes one of those runtime calls.
C15_WritesLast ==
    req[1].op = "start"
    => \A w \in Writes(calls[1]) :
          \A k \in RuntimeCalls(calls[1]) :
              calls[1][k][1] \in {"run", "exec", "port"} => k < w

\* C15 as amended: in a start, Container.create is the third call, after the
\* containers.run and the exec have succeeded and before the first port query;
\* every port query comes right after a write that succeeded, and every
\* Ports.create right after the port query of its guest port, which succeeded;
\* a start that answers with the ports has written one port for each guest port.
C15_WriteOrder ==
    req[1].op = "start"
    => LET s == calls[1] IN
       /\ \A k \in CallsOf(s, "db_create") :
             k = 3 /\ s[1][1] = "run" /\ s[1][3] /\ s[2][1] = "exec" /\ s[2][3]
       /\ \A k \in CallsOf(s, "port") :
             k > 3 /\ s[k - 1][1] \in {"db_create", "db_ports_create"} /\ s[k - 1][3]
       /\ \A k \in CallsOf(s, "db_ports_create") :
             k > 4 /\ s[k - 1][1] = "port" /\ s[k - 1][3]
       /\ (pc[1] = "done" /\ resp[1].msg_code = "container_start")
          => /\ Cardinality(CallsOf(s, "db_ports_create")) = Len(PortBindings(req[1].ctf_id))
             /\ Failed(s) = {}

\* a start of a problem with two guest ports has answered with the ports
C15_Witness ==
    /\ Answered(1, "start")
    /\ resp[1].msg_code = "container_start"
    /\ Len(calls[1]) = 7
    /\ calls[1][3][1] = "db_create"
    /\ calls[1][6][1] = "port"

\* a stop whose registry delete has succeeded and whose container.stop() or
\* container.delete() has failed
StopFailedInRuntime ==
    /\ Answered(1, "stop")
    /\ Len(calls[1]) >= 1 /\ calls[1][1][1] = "db_delete" /\ calls[1][1][3]
    /\ \E k \in Failed(calls[1]) : calls[1][k][1] \in {"stop", "delete"}

\* C16 as stated: when the stop or the delete of the container fails after the
\* registry delete, the registry holds no Instance for the pair while the
\* container still exists.
C16_DeleteStands ==
    StopFailedInRuntime
    => /\ Held(Container, req[1].team_id, req[1].ctf_id) = {}
       /\ docker[calls[1][1][2]] \in {"running", "stopped"}

\* C16 as amended: when the stop or the delete of the container fails after the
\* registry delete, the exception leaves the transaction, which rolls back: the
\* registry is as it was before the request, with the Instance and its ports,
\* the answer is the framework's 500, and the container still exists, untouched
\* when the stop has failed and stopped when the delete has failed.
C16_DeleteUndone ==
    StopFailedInRuntime
    => LET s == calls[1]
           id == s[1][2]
       IN  /\ Container = hist.Container
           /\ Ports = hist.Ports
           /\ Held(Container, req[1].team_id, req[1].ctf_id) # {}
           /\ resp[1] = InternalServerError
           /\ s[Len(s)][1] = "stop" => docker = hist.docker
           /\ s[Len(s)][1] = "delete" => docker[id] = "stopped"
           /\ docker[id] \in {"running", "stopped"}

\* the delete of the container has failed after its stop: the container is
\* stopped and its Instance, with its ports, is in the registry
C16_Witness ==
    /\ StopFailedInRuntime
    /\ calls[1][Len(calls[1])] = <<"delete", calls[1][1][2], FALSE>>
    /\ \E r \in Held(Container, req[1].team_id, req[1].ctf_id) :
          /\ r.docker_id = calls[1][1][2]
          /\ PortsOf(r.docker_id) # {}
          /\ docker[r.docker_id] = "stopped"

\* C17: after a start that has answered db_error, the registry is as it was
\* before the request: it holds no Instance and no port for the pair.
C17_NothingWritten ==
    (Answered(1, "start") /\ resp[1].msg_code = "db_error")
    => /\ Container = hist.Container
       /\ Ports = hist.Ports
       /\ Held(Container, req[1].team_id, req[1].ctf_id) = {}

\* C18: when the sequential client's requests have all been answered, every
\* Instance of the registry names a container that the handlers have not
\* removed.
C18_RecordsHaveContainers ==
    pc[1] \in {"idle", "done"}
    => \A r \in Container : docker[r.docker_id] # "removed"

\* C19: a unit of round2's provision phase that has failed, at whatever step,
\* has logged its failure and has left nothing for its pair: no Instance and no
\* port in the round-2 tables, and no container that runs.
C19_FailedUnitLeavesNothing ==
    \A u \in Units :
        new_tasks[u].pc = "failed"
        => /\ new_tasks[u].logged
           /\ \A r \in R2Container :
                 ~(r.docker_id = new_tasks[u].container /\ new_tasks[u].container # 0)
           /\ \A r \in R2Ports : r.container # new_tasks[u].container
           /\ new_tasks[u].container # 0 => docker[new_tasks[u].container] # "running"

\* the host port of the first item of the list the runtime reports for guest
\* port gp of container id
FirstReported(id, gp) == int(HostPortList(id, gp)[1].HostPort)

\* C20: when a start has answered with the ports of a new container, the port
\* returned and the port stored in the registry for each guest port is the host
\* port of the first item of the list the runtime reports for it, whatever the
\* other items are, and nothing else is stored for the container.
C20_FirstBinding ==
    (Answered(1, "start") /\ resp[1].msg_code = "container_start")
    => LET id == calls[1][1][2]
           guest == PortBindings(req[1].ctf_id)
       IN  /\ Len(resp[1].ports) = Len(guest)
           /\ \A j \in 1 .. Len(guest) : resp[1].ports[j] = FirstReported(id, guest[j])
           /\ PortsOf(id) = {FirstReported(id, guest[j]) : j \in 1 .. Len(guest)}

\* the ports of a container with two guest ports have been returned, and the
\* second item of each list named another port
C20_Witness ==
    /\ Answered(1, "start")
    /\ resp[1].msg_code = "container_start"
    /\ Len(resp[1].ports) = 2
    /\ \A j \in 1 .. 2 :
          int(HostPortList(calls[1][1][2], PortBindings(req[1].ctf_id)[j])[2].HostPort)
              \notin Range(resp[1].ports)

====
